---- MODULE Spec2Model ----
(***************************************************************************)
(* A model of the CHIP-8 interpreter of src/src/main.rs: the Chip8 struct, *)
(* Chip8::new, the fetch / execute / timer loop of Chip8::run,             *)
(* Chip8::execute_opcode and every instruction handler.                    *)
(*                                                                         *)
(* One step of the model is one iteration of the loop of Chip8::run: the   *)
(* fetch, the handler the decoder selects, and the timer update.  There is *)
(* one action per handler, and one for each way the iteration panics       *)
(* before a handler runs.                                                  *)
(***************************************************************************)
EXTENDS Integers, Sequences, FiniteSets, TLC

\* ------------------------------------------------------------- constants

MEMORY_SIZE == 4096
NUM_REGISTERS == 16
STACK_SIZE == 16
NUM_KEYS == 16
SCREEN_WIDTH == 512
SCREEN_HEIGHT == 384
PROGRAM_START == 512
FONTSET_LEN == 80

FONTSET ==
    << 240, 144, 144, 144, 240,
        32,  96,  32,  32, 112,
       240,  16, 240, 128, 240,
       240,  16, 240,  16, 240,
       144, 144, 240,  16,  16,
       240, 128, 240,  16, 240,
       240, 128, 240, 144, 240,
       240,  16,  32,  64,  64,
       240, 144, 240, 144, 240,
       240, 144, 240,  16, 240,
       240, 144, 240, 144, 144,
       224, 144, 224, 144, 224,
       240, 128, 128, 128, 240,
       224, 144, 144, 144, 224,
       240, 128, 240, 128, 240,
       240, 128, 240, 128, 128 >>

\* ------------------------------------------------- fixed-width arithmetic

U8(v) == v % 256
U16(v) == v % 65536

\* Bit k of v (k = 0 is the least significant bit).
Bit(v, k) == (v \div (2 ^ k)) % 2

\* The u8 operators |, & and ^, bit by bit.
BitOr(a, b) ==
    LET f[k \in 0..8] ==
            IF k = 8 THEN 0
            ELSE (2 ^ k) * (IF Bit(a, k) + Bit(b, k) > 0 THEN 1 ELSE 0) + f[k + 1]
    IN  f[0]

BitAnd(a, b) ==
    LET f[k \in 0..8] ==
            IF k = 8 THEN 0
            ELSE (2 ^ k) * (Bit(a, k) * Bit(b, k)) + f[k + 1]
    IN  f[0]

BitXor(a, b) ==
    LET f[k \in 0..8] ==
            IF k = 8 THEN 0
            ELSE (2 ^ k) * ((Bit(a, k) + Bit(b, k)) % 2) + f[k + 1]
    IN  f[0]

\* ------------------------------------------------------------------ state

VARIABLES
    memory,          \* the bytes of [u8; 4096] that are not 0, as a function
                     \* from their addresses; every other byte is 0
    registers,       \* [u8; 16], indexed 0..15
    stack,           \* [u16; 16], indexed 0..15
    i,               \* u16, the index register
    pc,              \* u16, the program counter
    sp,              \* u8, the stack pointer
    delay,           \* u8, the delay timer
    sound,           \* u8, the sound timer
    keyboard,        \* [bool; 16], indexed 0..15
    display,         \* the cells of the display array that hold 1, as
                     \* <<first index, second index>>; every other cell is 0
    panicked,        \* the process has panicked: the run is over
    waiting,         \* the process is inside the loop of ld_vx_k
    overflow_checks, \* the build panics on integer overflow (debug) or wraps
    opcode,          \* the word the last iteration fetched, -1 when none was
    prev,            \* the machine as it was when the last iteration began
    prev2,           \* the same for the iteration before the last one
    calls,           \* addresses of the 2NNN instructions not yet returned from
    cycles,          \* iterations of the loop begun so far
    limit            \* iterations of the loop this run is followed for

vars == << memory, registers, stack, i, pc, sp, delay, sound, keyboard,
           display, panicked, waiting, overflow_checks, opcode, prev, prev2,
           calls, cycles, limit >>

\* The Chip8 struct as one value (the m of every handler below is such a
\* value), with what a handler decides about the process (whether it
\* panicked, whether it is still looping) and how the build treats overflow.
Self ==
    [ memory |-> memory, registers |-> registers, stack |-> stack, i |-> i,
      pc |-> pc, sp |-> sp, delay |-> delay, sound |-> sound,
      keyboard |-> keyboard, display |-> display,
      panicked |-> panicked, waiting |-> waiting,
      overflow_checks |-> overflow_checks ]

\* A panic that is swallowed: the process carries on.
NoPanic(m) == m

\* A panic: the handler stops where it is, what it wrote so far stays.
Panic(m) == [m EXCEPT !.panicked = TRUE]

\* ------------------------------------------------------ operand fields

OpX(op) == (op \div 256) % 16
OpY(op) == (op \div 16) % 16
OpN(op) == op % 16
OpNNN(op) == op % 4096
OpKK(op) == op % 256

\* --------------------------------------------------- instruction handlers

\* 00E0: the body of cls is empty.
cls(m) == m

\* 00EE: pc = stack[sp]; sp -= 1.
ret(m) ==
    IF m.sp >= STACK_SIZE THEN Panic(m)
    ELSE LET m1 == [m EXCEPT !.pc = m.stack[m.sp]]
         IN  IF m.sp = 0
             THEN IF m.overflow_checks THEN Panic(m1) ELSE [m1 EXCEPT !.sp = 255]
             ELSE [m1 EXCEPT !.sp = m.sp - 1]

\* 1NNN
jp(m, nnn) == [m EXCEPT !.pc = nnn]

\* 2NNN: sp += 1; stack[sp] = pc; pc = nnn.
call(m, nnn) ==
    IF m.sp = 255 /\ m.overflow_checks THEN Panic(m)
    ELSE LET m1 == [m EXCEPT !.sp = U8(m.sp + 1)]
         IN  IF m1.sp >= STACK_SIZE THEN Panic(m1)
             ELSE [m1 EXCEPT !.stack[m1.sp] = m.pc, !.pc = nnn]

\* pc += 2, as the skip handlers do it.
SkipNext(m) ==
    IF m.pc + 2 > 65535
    THEN IF m.overflow_checks THEN Panic(m) ELSE [m EXCEPT !.pc = U16(m.pc + 2)]
    ELSE [m EXCEPT !.pc = m.pc + 2]

\* 3XKK
se(m, x, kk) == IF m.registers[x] = kk THEN SkipNext(m) ELSE m

\* 4XKK
sne(m, x, kk) == IF m.registers[x] # kk THEN SkipNext(m) ELSE m

\* 5XY0
se_vx_vy(m, x, y) == IF m.registers[x] = m.registers[y] THEN SkipNext(m) ELSE m

\* 6XKK
ld(m, x, kk) == [m EXCEPT !.registers[x] = kk]

\* 7XKK
add(m, x, kk) == [m EXCEPT !.registers[x] = U8(m.registers[x] + kk)]

\* 8XY0
ld_vx_vy(m, x, y) == [m EXCEPT !.registers[x] = m.registers[y]]

\* 8XY1
or(m, x, y) == [m EXCEPT !.registers[x] = BitOr(m.registers[x], m.registers[y])]

\* 8XY2
and(m, x, y) == [m EXCEPT !.registers[x] = BitAnd(m.registers[x], m.registers[y])]

\* 8XY3
xor(m, x, y) == [m EXCEPT !.registers[x] = BitXor(m.registers[x], m.registers[y])]

\* 8XY4 with the two writes the other way round, as sub and shr have them:
\* the flag first, then Vx from the registers as they are then.
add_vx_vy_flag_first(m, x, y) ==
    LET m1 == [m EXCEPT !.registers[15] =
                   IF m.registers[x] + m.registers[y] > 255 THEN 1 ELSE 0]
    IN  [m1 EXCEPT !.registers[x] = U8(m1.registers[x] + m1.registers[y])]

\* 8XY4: the sum is taken first, then Vx is written, then VF.
add_vx_vy(m, x, y) ==
    LET sum == m.registers[x] + m.registers[y]
        result == U8(sum)
        overflow == sum > 255
        m1 == [m EXCEPT !.registers[x] = result]
    IN  [m1 EXCEPT !.registers[15] = IF overflow THEN 1 ELSE 0]

\* 8XY5: VF is written first, then Vx from the registers as they are then.
sub(m, x, y) ==
    LET m1 == [m EXCEPT !.registers[15] =
                   IF m.registers[x] > m.registers[y] THEN 1 ELSE 0]
    IN  [m1 EXCEPT !.registers[x] = U8(m1.registers[x] - m1.registers[y])]

\* 8XY6: VF is written first, then Vx from the registers as they are then.
shr(m, x) ==
    LET m1 == [m EXCEPT !.registers[15] = BitAnd(m.registers[x], 1)]
    IN  [m1 EXCEPT !.registers[x] = m1.registers[x] \div 2]

\* 8XY7: VF is written first, then Vx from the registers as they are then.
subn(m, x, y) ==
    LET m1 == [m EXCEPT !.registers[15] =
                   IF m.registers[y] > m.registers[x] THEN 1 ELSE 0]
    IN  [m1 EXCEPT !.registers[x] = U8(m1.registers[y] - m1.registers[x])]

\* 8XYE: VF is written first, then Vx from the registers as they are then.
shl(m, x) ==
    LET m1 == [m EXCEPT !.registers[15] = BitAnd(m.registers[x], 128) \div 128]
    IN  [m1 EXCEPT !.registers[x] = U8(m1.registers[x] * 2)]

\* 9XY0
sne_vx_vy(m, x, y) == IF m.registers[x] # m.registers[y] THEN SkipNext(m) ELSE m

\* ANNN
ld_i(m, nnn) == [m EXCEPT !.i = nnn]

\* BNNN: registers[0] as u16 + nnn is at most 255 + 4095.
jp_v0(m, nnn) == [m EXCEPT !.pc = m.registers[0] + nnn]

\* CXKK: random is the value random::<u8>() returns.
rnd(m, x, kk, random) == [m EXCEPT !.registers[x] = BitAnd(random, kk)]

\* The byte memory[at], for at inside the array.
Byte(mem, at) == IF at \in DOMAIN mem THEN mem[at] ELSE 0

\* The memory after memory[at] = value, for at inside the array.
WriteByte(mem, at, value) ==
    IF value = 0 THEN [a \in (DOMAIN mem) \ {at} |-> mem[a]]
    ELSE [a \in (DOMAIN mem) \cup {at} |-> IF a = at THEN value ELSE mem[a]]

\* The cell display[a][b]: 1 when it is in the set, 0 otherwise.
Cell(disp, a, b) == IF <<a, b>> \in disp THEN 1 ELSE 0

\* display[a][b] |= pixel: the cell is set, never cleared.
OrCell(disp, a, b, pixel) == IF pixel = 0 THEN disp ELSE disp \cup {<<a, b>>}

\* display[a][b] ^= pixel on a display whose cells hold 0 or 1.
XorCell(disp, a, b, pixel) ==
    IF pixel = 0 THEN disp
    ELSE IF <<a, b>> \in disp THEN disp \ {<<a, b>>} ELSE disp \cup {<<a, b>>}

\* The inner loop of drw over a display declared at an eighth of the window
\* in each dimension, the coordinates still wrapped at the window's size.
DrawLine_native_buffer(d, sprite_line, x, y, r) ==
    LET f[j \in 0..8] ==
            IF j = 0 THEN d
            ELSE LET before == f[j - 1]
                     sprite_pixel == Bit(sprite_line, 7 - (j - 1))
                     screen_x == (x + (j - 1)) % SCREEN_WIDTH
                     screen_y == (y + r) % SCREEN_HEIGHT
                 IN  IF before.fault THEN before
                     ELSE IF screen_y >= SCREEN_WIDTH \div 8
                             \/ screen_x >= SCREEN_HEIGHT \div 8
                     THEN [before EXCEPT !.fault = TRUE]
                     ELSE [ display |-> XorCell(before.display, screen_y, screen_x,
                                                sprite_pixel),
                            collision |-> before.collision
                                \/ (Cell(before.display, screen_y, screen_x) = 1
                                    /\ sprite_pixel = 1),
                            fault |-> FALSE ]
    IN  f[8]

\* The inner loop of drw for sprite row r: the eight pixels of sprite_line,
\* left to right.  d is [display, collision, fault]; fault is an index
\* outside display: [[u8; SCREEN_HEIGHT]; SCREEN_WIDTH], whose first index
\* ranges over SCREEN_WIDTH and whose second over SCREEN_HEIGHT.
DrawLine(d, sprite_line, x, y, r) ==
    LET f[j \in 0..8] ==
            IF j = 0 THEN d
            ELSE LET before == f[j - 1]
                     sprite_pixel == Bit(sprite_line, 7 - (j - 1))
                     screen_x == (x + (j - 1)) % SCREEN_WIDTH
                     screen_y == (y + r) % SCREEN_HEIGHT
                 IN  IF before.fault THEN before
                     ELSE IF screen_y >= SCREEN_WIDTH \/ screen_x >= SCREEN_HEIGHT
                     THEN [before EXCEPT !.fault = TRUE]
                     ELSE [ display |-> XorCell(before.display, screen_y, screen_x,
                                                sprite_pixel),
                            collision |-> before.collision
                                \/ (Cell(before.display, screen_y, screen_x) = 1
                                    /\ sprite_pixel = 1),
                            fault |-> FALSE ]
    IN  f[8]

\* DXYN: n rows read from memory[i + r]; VF is written after the loops.
drw(m, x, y, n) ==
    LET vx == m.registers[x]
        vy == m.registers[y]
        f[r \in 0..n] ==
            IF r = 0 THEN [display |-> m.display, collision |-> FALSE, fault |-> FALSE]
            ELSE LET before == f[r - 1]
                 IN  IF before.fault THEN before
                     ELSE IF m.i + (r - 1) >= MEMORY_SIZE
                     THEN [before EXCEPT !.fault = TRUE]
                     ELSE DrawLine(before, Byte(m.memory, m.i + (r - 1)), vx, vy, r - 1)
        done == f[n]
        m1 == [m EXCEPT !.display = done.display]
    IN  IF done.fault THEN Panic(m1)
        ELSE [m1 EXCEPT !.registers[15] = IF done.collision THEN 1 ELSE 0]

\* EX9E: keyboard[registers[x] as usize], an index into [bool; 16].
skp(m, x) ==
    IF m.registers[x] >= NUM_KEYS THEN Panic(m)
    ELSE IF m.keyboard[m.registers[x]] THEN SkipNext(m) ELSE m

\* EXA1
sknp(m, x) ==
    IF m.registers[x] >= NUM_KEYS THEN Panic(m)
    ELSE IF ~m.keyboard[m.registers[x]] THEN SkipNext(m) ELSE m

\* FX07
ld_vx_dt(m, x) == [m EXCEPT !.registers[x] = m.delay]

\* FX0A as a poll: with no key pressed it returns at once.
ld_vx_k_polling(m, x) ==
    LET pressed == {k \in 0..(NUM_KEYS - 1) : m.keyboard[k]}
    IN  IF pressed = {} THEN m
        ELSE [m EXCEPT !.registers[x] =
                  CHOOSE k \in pressed : \A other \in pressed : k <= other]

\* FX0A: position(|&b| b) is the lowest pressed key; with none pressed the
\* loop goes round again, and nothing in the loop changes the keyboard.
ld_vx_k(m, x) ==
    LET pressed == {k \in 0..(NUM_KEYS - 1) : m.keyboard[k]}
    IN  IF pressed = {} THEN [m EXCEPT !.waiting = TRUE]
        ELSE [m EXCEPT !.registers[x] =
                  CHOOSE k \in pressed : \A other \in pressed : k <= other]

\* FX15
ld_dt_vx(m, x) == [m EXCEPT !.delay = m.registers[x]]

\* FX18
ld_st_vx(m, x) == [m EXCEPT !.sound = m.registers[x]]

\* FX1E: i += registers[x] as u16.
add_i_vx(m, x) ==
    IF m.i + m.registers[x] > 65535
    THEN IF m.overflow_checks THEN Panic(m)
         ELSE [m EXCEPT !.i = U16(m.i + m.registers[x])]
    ELSE [m EXCEPT !.i = m.i + m.registers[x]]

\* FX29: i = (registers[x] as usize * 5) as u16.
ld_f_vx(m, x) == [m EXCEPT !.i = U16(m.registers[x] * 5)]

\* memory[at] = value, or the panic of an index outside [u8; 4096].
Store(m, at, value) ==
    IF m.panicked THEN m
    ELSE IF at >= MEMORY_SIZE THEN Panic(m)
    ELSE [m EXCEPT !.memory = WriteByte(m.memory, at, value)]

\* FX33 with the tens digit left unreduced.
ld_b_vx_tens_unreduced(m, x) ==
    LET value == m.registers[x]
        m1 == Store(m, m.i, value \div 100)
        m2 == Store(m1, m.i + 1, value \div 10)
    IN  Store(m2, m.i + 2, value % 10)

\* FX33: the three writes in order; i + 1 and i + 2 are u16 sums, and they
\* overflow only for an i whose first write has already panicked.
ld_b_vx(m, x) ==
    LET value == m.registers[x]
        m1 == Store(m, m.i, value \div 100)
        m2 == Store(m1, m.i + 1, (value \div 10) % 10)
    IN  Store(m2, m.i + 2, value % 10)

\* FX55 over the half-open range: for k in 0..x.
ld_i_vx_exclusive(m, x) ==
    LET f[k \in 0..x] ==
            IF k = 0 THEN m
            ELSE Store(f[k - 1], m.i + (k - 1), m.registers[k - 1])
    IN  f[x]

\* FX55: for k in 0..=x, memory[i + k] = registers[k].
ld_i_vx(m, x) ==
    LET f[k \in 0..(x + 1)] ==
            IF k = 0 THEN m
            ELSE Store(f[k - 1], m.i + (k - 1), m.registers[k - 1])
    IN  f[x + 1]

\* FX65: for k in 0..=x, registers[k] = memory[i + k].
ld_vx_i(m, x) ==
    LET f[k \in 0..(x + 1)] ==
            IF k = 0 THEN m
            ELSE LET before == f[k - 1]
                 IN  IF before.panicked THEN before
                     ELSE IF m.i + (k - 1) >= MEMORY_SIZE THEN Panic(before)
                     ELSE [before EXCEPT !.registers[k - 1] =
                               Byte(m.memory, m.i + (k - 1))]
    IN  f[x + 1]

\* The timer update as an unguarded wrapping decrement.
update_timers_wrapping(m) ==
    [m EXCEPT !.delay = U8(m.delay - 1), !.sound = U8(m.sound - 1)]

\* The timer update that ends an iteration of the loop of run.
update_timers(m) ==
    [m EXCEPT !.delay = IF m.delay > 0 THEN m.delay - 1 ELSE m.delay,
              !.sound = IF m.sound > 0 THEN m.sound - 1 ELSE m.sound]

\* ---------------------------------------------------------------- decode

\* The handler execute_opcode selects for a word, by name; "unknown" is the
\* panic!("Unknown opcode") arm.  The outer match is on opcode & 0xF000, the
\* inner ones on the whole word (0x0000), on opcode & 0x000F (0x8000) and on
\* opcode & 0x00FF (0xE000, 0xF000).
Decode(op) ==
    LET group == op \div 4096
        low4 == op % 16
        low8 == op % 256
    IN  CASE group = 0 ->
                 (CASE op = 224 -> "cls"
                    [] op = 238 -> "ret"
                    [] OTHER -> "unknown")
          [] group = 1 -> "jp"
          [] group = 2 -> "call"
          [] group = 3 -> "se"
          [] group = 4 -> "sne"
          [] group = 5 -> "se_vx_vy"
          [] group = 6 -> "ld"
          [] group = 7 -> "add"
          [] group = 8 ->
                 (CASE low4 = 0 -> "ld_vx_vy"
                    [] low4 = 1 -> "or"
                    [] low4 = 2 -> "and"
                    [] low4 = 3 -> "xor"
                    [] low4 = 4 -> "add_vx_vy"
                    [] low4 = 5 -> "sub"
                    [] low4 = 6 -> "shr"
                    [] low4 = 7 -> "subn"
                    [] low4 = 14 -> "shl"
                    [] OTHER -> "unknown")
          [] group = 9 -> "sne_vx_vy"
          [] group = 10 -> "ld_i"
          [] group = 11 -> "jp_v0"
          [] group = 12 -> "rnd"
          [] group = 13 -> "drw"
          [] group = 14 ->
                 (CASE low8 = 158 -> "skp"
                    [] low8 = 161 -> "sknp"
                    [] OTHER -> "unknown")
          [] group = 15 ->
                 (CASE low8 = 7 -> "ld_vx_dt"
                    [] low8 = 10 -> "ld_vx_k"
                    [] low8 = 21 -> "ld_dt_vx"
                    [] low8 = 24 -> "ld_st_vx"
                    [] low8 = 30 -> "add_i_vx"
                    [] low8 = 41 -> "ld_f_vx"
                    [] low8 = 51 -> "ld_b_vx"
                    [] low8 = 85 -> "ld_i_vx"
                    [] low8 = 101 -> "ld_vx_i"
                    [] OTHER -> "unknown")
          [] OTHER -> "unknown"

\* ------------------------------------------------------- construction

\* Chip8::new: the font at the start of memory, pc at 0x200, all else zero.
new ==
    [ memory |-> [a \in 0..(FONTSET_LEN - 1) |-> FONTSET[a + 1]],
      registers |-> [r \in 0..(NUM_REGISTERS - 1) |-> 0],
      stack |-> [s \in 0..(STACK_SIZE - 1) |-> 0],
      i |-> 0,
      pc |-> PROGRAM_START,
      sp |-> 0,
      delay |-> 0,
      sound |-> 0,
      keyboard |-> [k \in 0..(NUM_KEYS - 1) |-> FALSE],
      display |-> {} ]

\* The memory after memory[at + k] = bytes[k + 1] for every k below
\* Len(bytes); the bytes fit in the array.
WriteBytes(mem, at, bytes) ==
    LET span == at..(at + Len(bytes) - 1)
        nonzero == {a \in span : bytes[a - at + 1] # 0}
    IN  [a \in ((DOMAIN mem) \ span) \cup nonzero |->
            IF a \in span THEN bytes[a - at + 1] ELSE mem[a]]

\* The head of run: memory[0x200 + k] = byte for every byte of the program.
\* Every program of the model fits between 0x200 and the end of memory.
LoadProgram(mem, program) == WriteBytes(mem, PROGRAM_START, program)

\* ------------------------------------------------------------- bounds

\* Iterations of the loop a run of Spec is followed for.
MaxCycles == 18

\* Iterations of the loop a run of HandlerSpec is followed for.
HandlerCycles == 2

\* ------------------------------------------------------- the loop of run

\* memory[pc] and memory[pc + 1] are both inside the array.
Fetchable == pc + 1 < MEMORY_SIZE

\* (memory[pc] as u16) << 8 | memory[pc + 1] as u16
Word == Byte(memory, pc) * 256 + Byte(memory, pc + 1)

\* The loop goes round once more, and its fetch yields a word for handler h.
Ready(h) ==
    /\ ~panicked
    /\ ~waiting
    /\ cycles < limit
    /\ Fetchable
    /\ Decode(Word) = h

\* What the model remembers of the state an iteration began in.
Snapshot == [machine |-> Self, opcode |-> opcode, calls |-> calls]

\* The rest of the iteration after the handler left the machine as m: the
\* timer update, unless the handler panicked or never returned.
Finish(m, word, open_calls) ==
    LET after == IF m.panicked \/ m.waiting THEN m ELSE update_timers(m)
    IN  /\ memory' = after.memory
        /\ registers' = after.registers
        /\ stack' = after.stack
        /\ i' = after.i
        /\ pc' = after.pc
        /\ sp' = after.sp
        /\ delay' = after.delay
        /\ sound' = after.sound
        /\ keyboard' = after.keyboard
        /\ display' = after.display
        /\ panicked' = after.panicked
        /\ waiting' = after.waiting
        /\ overflow_checks' = overflow_checks
        /\ opcode' = word
        /\ prev' = Snapshot
        /\ prev2' = prev
        /\ calls' = open_calls
        /\ cycles' = cycles + 1
        /\ limit' = limit

\* The fetch indexes memory outside the array: the iteration panics.
FetchFault ==
    /\ ~panicked
    /\ ~waiting
    /\ cycles < limit
    /\ ~Fetchable
    /\ Finish(Panic(Self), -1, calls)

\* The word matches no arm of execute_opcode: panic!("Unknown opcode").
Unknown == Ready("unknown") /\ Finish(Panic(Self), Word, calls)

Cls == Ready("cls") /\ Finish(cls(Self), Word, calls)

Ret ==
    /\ Ready("ret")
    /\ LET m == ret(Self)
       IN  Finish(m, Word,
                  IF m.panicked \/ calls = <<>> THEN calls
                  ELSE SubSeq(calls, 1, Len(calls) - 1))

Jp == Ready("jp") /\ Finish(jp(Self, OpNNN(Word)), Word, calls)

Call ==
    /\ Ready("call")
    /\ LET m == call(Self, OpNNN(Word))
       IN  Finish(m, Word, IF m.panicked THEN calls ELSE Append(calls, pc))

Se == Ready("se") /\ Finish(se(Self, OpX(Word), OpKK(Word)), Word, calls)

Sne == Ready("sne") /\ Finish(sne(Self, OpX(Word), OpKK(Word)), Word, calls)

SeVxVy == Ready("se_vx_vy") /\ Finish(se_vx_vy(Self, OpX(Word), OpY(Word)), Word, calls)

Ld == Ready("ld") /\ Finish(ld(Self, OpX(Word), OpKK(Word)), Word, calls)

Add == Ready("add") /\ Finish(add(Self, OpX(Word), OpKK(Word)), Word, calls)

LdVxVy == Ready("ld_vx_vy") /\ Finish(ld_vx_vy(Self, OpX(Word), OpY(Word)), Word, calls)

Or == Ready("or") /\ Finish(or(Self, OpX(Word), OpY(Word)), Word, calls)

And == Ready("and") /\ Finish(and(Self, OpX(Word), OpY(Word)), Word, calls)

Xor == Ready("xor") /\ Finish(xor(Self, OpX(Word), OpY(Word)), Word, calls)

AddVxVy == Ready("add_vx_vy") /\ Finish(add_vx_vy(Self, OpX(Word), OpY(Word)), Word, calls)

Sub == Ready("sub") /\ Finish(sub(Self, OpX(Word), OpY(Word)), Word, calls)

Shr == Ready("shr") /\ Finish(shr(Self, OpX(Word)), Word, calls)

Subn == Ready("subn") /\ Finish(subn(Self, OpX(Word), OpY(Word)), Word, calls)

Shl == Ready("shl") /\ Finish(shl(Self, OpX(Word)), Word, calls)

SneVxVy == Ready("sne_vx_vy") /\ Finish(sne_vx_vy(Self, OpX(Word), OpY(Word)), Word, calls)

LdI == Ready("ld_i") /\ Finish(ld_i(Self, OpNNN(Word)), Word, calls)

JpV0 == Ready("jp_v0") /\ Finish(jp_v0(Self, OpNNN(Word)), Word, calls)

\* One value of random::<u8>() for every result random & kk can have (each
\* result r & kk is itself such a value, since (r & kk) & kk = r & kk).
RandomBytes(kk) == {BitAnd(r, kk) : r \in 0..255}

Rnd ==
    /\ Ready("rnd")
    /\ \E random \in RandomBytes(OpKK(Word)) :
           Finish(rnd(Self, OpX(Word), OpKK(Word), random), Word, calls)

Drw == Ready("drw") /\ Finish(drw(Self, OpX(Word), OpY(Word), OpN(Word)), Word, calls)

Skp == Ready("skp") /\ Finish(skp(Self, OpX(Word)), Word, calls)

Sknp == Ready("sknp") /\ Finish(sknp(Self, OpX(Word)), Word, calls)

LdVxDt == Ready("ld_vx_dt") /\ Finish(ld_vx_dt(Self, OpX(Word)), Word, calls)

LdVxK == Ready("ld_vx_k") /\ Finish(ld_vx_k(Self, OpX(Word)), Word, calls)

LdDtVx == Ready("ld_dt_vx") /\ Finish(ld_dt_vx(Self, OpX(Word)), Word, calls)

LdStVx == Ready("ld_st_vx") /\ Finish(ld_st_vx(Self, OpX(Word)), Word, calls)

AddIVx == Ready("add_i_vx") /\ Finish(add_i_vx(Self, OpX(Word)), Word, calls)

LdFVx == Ready("ld_f_vx") /\ Finish(ld_f_vx(Self, OpX(Word)), Word, calls)

LdBVx == Ready("ld_b_vx") /\ Finish(ld_b_vx(Self, OpX(Word)), Word, calls)

LdIVx == Ready("ld_i_vx") /\ Finish(ld_i_vx(Self, OpX(Word)), Word, calls)

LdVxI == Ready("ld_vx_i") /\ Finish(ld_vx_i(Self, OpX(Word)), Word, calls)

Next ==
    \/ FetchFault
    \/ Unknown
    \/ Cls
    \/ Ret
    \/ Jp
    \/ Call
    \/ Se
    \/ Sne
    \/ SeVxVy
    \/ Ld
    \/ Add
    \/ LdVxVy
    \/ Or
    \/ And
    \/ Xor
    \/ AddVxVy
    \/ Sub
    \/ Shr
    \/ Subn
    \/ Shl
    \/ SneVxVy
    \/ LdI
    \/ JpV0
    \/ Rnd
    \/ Drw
    \/ Skp
    \/ Sknp
    \/ LdVxDt
    \/ LdVxK
    \/ LdDtVx
    \/ LdStVx
    \/ AddIVx
    \/ LdFVx
    \/ LdBVx
    \/ LdIVx
    \/ LdVxI

\* ------------------------------------------------------------- programs

\* The bytes of a sequence of instruction words, high byte first.
Bytes(words) ==
    [k \in 1..(2 * Len(words)) |->
        IF k % 2 = 1 THEN words[(k + 1) \div 2] \div 256
        ELSE words[k \div 2] % 256]

\* d nested subroutines: the call at 0x200 + 4k (k < d) calls 0x200 + 4(k+1),
\* the innermost subroutine at 0x200 + 4d is a lone 00EE, every outer one
\* has its 00EE right after its call, and 0x202, where the outermost call
\* returns to, holds a jump to itself.
NestedCalls(d) ==
    Bytes([w \in 1..(2 * d + 1) |->
              IF w % 2 = 1 /\ w < 2 * d + 1 THEN 8192 + PROGRAM_START + 2 * (w + 1)
              ELSE IF w = 2 THEN 4096 + PROGRAM_START + 2
              ELSE 238])

\* 0x200: 1206 (jump to 0x206); 0x206: 602A (load register 0 with 0x2A).
JumpThenLoad == << 18, 6, 0, 0, 0, 0, 96, 42 >>

\* One-instruction programs, one or more for every arm of execute_opcode.
SingleWords ==
    { 0, 224, 238, 291,                      \* 0000 00E0 00EE 0123
      4607, 4608, 8191, 8704,                \* 11FF 1200 1FFF 2200
      12288, 12289, 16384, 16385,            \* 3000 3001 4000 4001
      20480, 20481, 20752,                   \* 5000 5001 5110
      24618, 28673, 28927,                   \* 602A 7001 70FF
      32784, 32785, 32786, 32787, 32788,     \* 8010 .. 8014
      32789, 32790, 32791, 32798, 32792,     \* 8015 8016 8017 801E 8018
      36864, 36865, 36880,                   \* 9000 9001 9010
      41728, 45824, 49155,                   \* A300 B300 C003
      53253, 53263,                          \* D005 D00F
      57502, 57505, 57344,                   \* E09E E0A1 E000
      61447, 61450, 61461, 61464, 61470,     \* F007 F00A F015 F018 F01E
      61481, 61491, 61525, 61541, 61440,     \* F029 F033 F055 F065 F000
      62293, 65365 }                         \* F355 FF55

Programs ==
    {JumpThenLoad}
        \cup {NestedCalls(d) : d \in 1..STACK_SIZE}
        \cup {Bytes(<<w>>) : w \in SingleWords}

\* The loop of run is about to begin its first iteration on machine m, and
\* is followed for n iterations.
Start(m, n) ==
    /\ memory = m.memory
    /\ registers = m.registers
    /\ stack = m.stack
    /\ i = m.i
    /\ pc = m.pc
    /\ sp = m.sp
    /\ delay = m.delay
    /\ sound = m.sound
    /\ keyboard = m.keyboard
    /\ display = m.display
    /\ panicked = FALSE
    /\ waiting = FALSE
    /\ overflow_checks \in BOOLEAN
    /\ opcode = -1
    /\ calls = <<>>
    /\ cycles = 0
    /\ limit = n
    /\ prev = Snapshot
    /\ prev2 = Snapshot

\* main: Chip8::new, then run loads the program and enters the loop.
Init ==
    \E program \in Programs :
        Start([new EXCEPT !.memory = LoadProgram(new.memory, program)],
              MaxCycles)

Spec == Init /\ [][Next]_vars

\* --------------------------------------------- the handlers on any machine

\* The register file with registers 0, 1 and 15 set, the others zero.
Regs(v0, v1, vf) ==
    [r \in 0..(NUM_REGISTERS - 1) |->
        CASE r = 0 -> v0 [] r = 1 -> v1 [] r = 15 -> vf [] OTHER -> 0]

ByteSamples == {0, 1, 5, 128, 255}

\* Sprite rows kept at 0x300; the 16 bytes from 0x310 on are zero.
SpriteAt == PROGRAM_START + 256
BlankAt == SpriteAt + 16
SpriteRows == << 255, 129, 0, 24, 1, 128, 60, 66, 165, 90, 255, 16, 8, 4, 2 >>

\* A machine about to execute word at 0x200, otherwise as new leaves it
\* but for the sprite rows.
Holding(word) ==
    [new EXCEPT !.memory =
        WriteBytes(LoadProgram(new.memory, Bytes(<<word>>)), SpriteAt, SpriteRows)]

\* 8XYk for the register pairs (0,1), (0,0), (0,15), (15,0), (15,15) and every
\* k the decoder knows, with 6XKK, 7XKK and CXKK.
AluWords ==
    {32768 + 256 * xy[1] + 16 * xy[2] + k :
        xy \in {<<0, 1>>, <<0, 0>>, <<0, 15>>, <<15, 0>>, <<15, 15>>},
        k \in (0..7) \cup {14}}
        \cup {24618, 28927, 49155}             \* 602A 70FF C003

AluInit ==
    \E word \in AluWords, v0 \in ByteSamples, v1 \in ByteSamples,
       vf \in ByteSamples :
        Start([Holding(word) EXCEPT !.registers = Regs(v0, v1, vf)],
              HandlerCycles)

DisplaySamples ==
    { {},
      {<<0, 0>>, <<0, 7>>, <<1, 3>>},
      {<<30, 3>>, <<31, 250>>, <<44, 261>>, <<269, 262>>, <<200, 100>>} }

\* DXYN on registers 0 and 1 for several N, and 00E0.
DisplayWords == {53264 + n : n \in {0, 1, 2, 15}} \cup {224}

DisplayInit ==
    \E word \in DisplayWords, v0 \in {0, 3, 250, 255}, v1 \in {0, 30, 255},
       at \in {0, SpriteAt, BlankAt, 4090}, disp \in DisplaySamples :
        Start([Holding(word) EXCEPT !.registers = Regs(v0, v1, 0), !.i = at,
                                    !.display = disp],
              HandlerCycles)

\* 00EE 1300 1FFF 2300 3005 4005 5010 5011 9010 9011 B300 and an
\* unknown word of each group that has one: 0123 8018 E000 F000.
FlowWords ==
    { 238, 4864, 8191, 8960, 12293, 16389, 20496, 20497, 36880, 36881, 45824,
      291, 32792, 57344, 61440 }

FlowInit ==
    \E word \in FlowWords, v0 \in ByteSamples, v1 \in {0, 5}, s \in {0, 1, 15} :
        Start([Holding(word) EXCEPT
                   !.registers = Regs(v0, v1, 0), !.sp = s,
                   !.stack = [k \in 0..(STACK_SIZE - 1) |-> 1024 + 2 * k]],
              HandlerCycles)

\* A123 F01E F033 F055 F155 FF55 F065 F165 FF65
MemoryWords == {41251, 61470, 61491, 61525, 61781, 65365, 61541, 61797, 65381}

MemoryInit ==
    \E word \in MemoryWords, v0 \in {0, 7, 234, 255}, v1 \in {0, 9},
       vf \in {0, 77}, at \in {0, 78, SpriteAt, 4093, 4095, 65535} :
        Start([Holding(word) EXCEPT !.registers = Regs(v0, v1, vf), !.i = at],
              HandlerCycles)

\* F029 on every value of register 0.
GlyphInit ==
    \E v0 \in 0..255 : Start([Holding(61481) EXCEPT !.registers = Regs(v0, 0, 0)],
              HandlerCycles)

\* F007 F00A F015 F018 E09E E0A1
InputWords == {61447, 61450, 61461, 61464, 57502, 57505}

KeySamples == { {}, {0}, {5}, {3, 12} }

InputInit ==
    \E word \in InputWords, v0 \in {0, 5, 15, 16, 255}, dt \in {0, 1, 9},
       st \in {0, 1, 9}, keys \in KeySamples :
        Start([Holding(word) EXCEPT
                   !.registers = Regs(v0, 0, 0), !.delay = dt, !.sound = st,
                   !.keyboard = [k \in 0..(NUM_KEYS - 1) |-> k \in keys]],
              HandlerCycles)

\* F033 F133 FF33 on every value of the register they read, over the sprite
\* rows and at the last three bytes of memory.
BcdInit ==
    \E word \in {61491, 61747, 65331}, v \in 0..255, at \in {SpriteAt, 4093} :
        Start([Holding(word) EXCEPT
                   !.registers = Regs(v, 255 - v, (v + 100) % 256), !.i = at],
              HandlerCycles)

\* FX55 for X in 1..15 with i at the word itself, V0 = 0xF0 + X and V1 = 0x65:
\* the dump overwrites the word at pc with FX65, which the next iteration
\* fetches with the same i and the same X.
DumpThenLoadInit ==
    \E x \in 1..15, seed \in {3, 11} :
        Start([Holding(61525 + 256 * x) EXCEPT
                   !.registers = [r \in 0..(NUM_REGISTERS - 1) |->
                                     CASE r = 0 -> 240 + x
                                       [] r = 1 -> 101
                                       [] OTHER -> 16 * r + seed],
                   !.i = PROGRAM_START],
              HandlerCycles)

\* D01F at every value of each coordinate register, the other one at either
\* end of its range.
DrawRangeInit ==
    \E a \in 0..255, b \in {0, 255}, swap \in BOOLEAN :
        Start([Holding(53279) EXCEPT
                   !.registers = IF swap THEN Regs(b, a, 0) ELSE Regs(a, b, 0),
                   !.i = SpriteAt],
              HandlerCycles)

\* Every word of the 0x0 group, on a machine none of whose parts is at its
\* initial value.
ZeroGroupInit ==
    \E word \in 0..4095 :
        Start([Holding(word) EXCEPT
                   !.registers = Regs(5, 128, 1), !.i = SpriteAt, !.sp = 1,
                   !.stack = [k \in 0..(STACK_SIZE - 1) |-> 1024 + 2 * k],
                   !.delay = 9, !.sound = 1,
                   !.keyboard = [k \in 0..(NUM_KEYS - 1) |-> k = 3],
                   !.display = {<<0, 0>>, <<0, 7>>, <<1, 3>>}],
              HandlerCycles)

\* Machines execute_opcode may be handed: any contents of the register
\* file, the index register, the stack, the timers, the keyboard and the
\* display, drawn from the samples above.
HandlerInit ==
    \/ AluInit
    \/ DisplayInit
    \/ FlowInit
    \/ MemoryInit
    \/ GlyphInit
    \/ InputInit
    \/ ZeroGroupInit
    \/ BcdInit
    \/ DumpThenLoadInit
    \/ DrawRangeInit

HandlerSpec == HandlerInit /\ [][Next]_vars

\* ------------------------------------------------------------ properties

\* The last iteration fetched a word for handler h, and the handler returned.
Executed(h) == opcode # -1 /\ Decode(opcode) = h /\ ~panicked /\ ~waiting

\* Register r as the last iteration found it.
PrevV(r) == prev.machine.registers[r]

\* The X and Y selectors of the word the last iteration fetched.
X == OpX(opcode)
Y == OpY(opcode)

\* The program is in memory where run put it.
Loaded(program) ==
    \A k \in 1..Len(program) : Byte(memory, PROGRAM_START + k - 1) = program[k]

\* C1: with 1206 at 0x200 and 602A at 0x206 loaded, after exactly two
\* iterations of the loop register 0 holds 0x2A and the program counter is
\* 0x208.
C1_JumpThenLoad ==
    (Loaded(JumpThenLoad) /\ cycles = 2) => (registers[0] = 42 /\ pc = 520)

\* C2: a 00EE that answers an open 2NNN sets the program counter to the
\* address of that 2NNN plus 2, the innermost open one first, and when no
\* call is left open the stack pointer is back at 0; up to 16 calls can be
\* open at once, so a 2NNN with fewer than 16 open does not fail.
C2_CallReturnRoundTrip ==
    /\ (opcode = 238 /\ prev.calls # <<>>) =>
           /\ ~panicked
           /\ pc = prev.calls[Len(prev.calls)] + 2
           /\ (calls = <<>> => sp = 0)
    /\ (opcode # -1 /\ Decode(opcode) = "call" /\ Len(prev.calls) < STACK_SIZE) =>
           ~panicked

\* C3: for X other than 15 and any Y, 8XY5 leaves VF = 1 iff Vx > Vy, else
\* 0, and Vx = (Vx - Vy) mod 256; 8XY7 leaves VF = 1 iff Vy > Vx, else 0,
\* and Vx = (Vy - Vx) mod 256; Vx and Vy on the right are the values the
\* registers held before the instruction.
C3_Subtraction ==
    /\ (Executed("sub") /\ X # 15) =>
           /\ registers[15] = (IF PrevV(X) > PrevV(Y) THEN 1 ELSE 0)
           /\ registers[X] = U8(PrevV(X) - PrevV(Y))
    /\ (Executed("subn") /\ X # 15) =>
           /\ registers[15] = (IF PrevV(Y) > PrevV(X) THEN 1 ELSE 0)
           /\ registers[X] = U8(PrevV(Y) - PrevV(X))

\* C4: for every X, 15 included, 8XY6 leaves VF equal to the least
\* significant bit Vx had, and 8XYE leaves VF equal to the most significant
\* bit Vx had; for X other than 15, Vx is the old value shifted by one bit
\* and truncated to 8 bits.
C4_Shifts ==
    /\ Executed("shr") =>
           /\ registers[15] = PrevV(X) % 2
           /\ (X # 15 => registers[X] = PrevV(X) \div 2)
    /\ Executed("shl") =>
           /\ registers[15] = PrevV(X) \div 128
           /\ (X # 15 => registers[X] = U8(PrevV(X) * 2))

\* C5: 8XY4 leaves VF = 1 if Vx + Vy (as they were before) exceeds 255 and
\* VF = 0 otherwise, also when X or Y is 15; for X other than 15 it leaves
\* Vx = (Vx + Vy) mod 256; no register other than Vx and VF changes.
C5_Addition ==
    Executed("add_vx_vy") =>
        /\ registers[15] = (IF PrevV(X) + PrevV(Y) > 255 THEN 1 ELSE 0)
        /\ (X # 15 => registers[X] = (PrevV(X) + PrevV(Y)) % 256)
        /\ \A r \in 0..(NUM_REGISTERS - 1) :
               (r # X /\ r # 15) => registers[r] = PrevV(r)

\* 8FY4 has run on a sum that exceeds 255: the flag register was both the
\* destination and the carry.
C5_Witness ==
    /\ Executed("add_vx_vy")
    /\ X = 15
    /\ Y = 0
    /\ PrevV(15) + PrevV(0) > 255
    /\ PrevV(15) # 1

\* The last two iterations executed the same DXYN, with X and Y other
\* than 15: the same sprite (memory and the index register are not written
\* by a draw) at the same position.
SecondDraw ==
    /\ cycles >= 2
    /\ Executed("drw")
    /\ prev.opcode = opcode
    /\ prev.machine.pc = prev2.machine.pc
    /\ X # 15
    /\ Y # 15

\* The cells the two draws address, from the coordinates before the first.
DrawRegion ==
    {<<(prev2.machine.registers[Y] + r) % SCREEN_HEIGHT,
       (prev2.machine.registers[X] + j) % SCREEN_WIDTH>> :
        r \in 0..(OpN(opcode) - 1), j \in 0..7}

RegionClear == DrawRegion \cap prev2.machine.display = {}

\* Some row of the sprite has a bit set.
SpriteHasPixel ==
    \E r \in 0..(OpN(opcode) - 1) :
        Byte(prev2.machine.memory, prev2.machine.i + r) # 0

\* C6, as stated: the same DXYN twice in a row leaves every framebuffer cell
\* as it was before the first draw, and if the target region was clear
\* before the first draw, the first draw leaves VF = 0 and the second leaves
\* VF = 1.
C6_DrawTwiceCollides ==
    SecondDraw =>
        /\ display = prev2.machine.display
        /\ RegionClear => (prev.machine.registers[15] = 0 /\ registers[15] = 1)

\* C6, amended: the same DXYN twice in a row leaves every framebuffer cell
\* as it was before the first draw, and if the target region was clear
\* before the first draw, the first draw leaves VF = 0 and the second leaves
\* VF = 1 when some row of the sprite has a bit set, VF = 0 when none has
\* (N = 0, or every row byte 0).
C6_DrawTwice ==
    SecondDraw =>
        /\ display = prev2.machine.display
        /\ RegionClear =>
               /\ prev.machine.registers[15] = 0
               /\ registers[15] = (IF SpriteHasPixel THEN 1 ELSE 0)

\* A 15-row sprite with bits set has been drawn twice on a clear region of a
\* framebuffer that holds pixels elsewhere; the second draw collided.
C6_Witness ==
    /\ SecondDraw
    /\ OpN(opcode) = 15
    /\ RegionClear
    /\ SpriteHasPixel
    /\ prev2.machine.display # {}
    /\ prev.machine.display # prev2.machine.display
    /\ registers[15] = 1

\* C7: after 00E0 every framebuffer cell is 0, whatever the framebuffer
\* held before.
C7_ScreenClear == Executed("cls") => display = {}

\* C8: in every state of every run, memory bytes 0x000..0x04F equal the
\* built-in glyph table.
C8_GlyphTableImmutable ==
    \A a \in 0..(FONTSET_LEN - 1) : Byte(memory, a) = FONTSET[a + 1]

\* C9: FX29 sets the address register to 5 * (Vx mod 16) for every value of
\* Vx, the first byte of one of the 16 glyphs.
C9_GlyphAddress == Executed("ld_f_vx") => i = 5 * (PrevV(X) % 16)

\* The encodings the instruction set defines: 00E0 00EE 1NNN 2NNN 3XKK 4XKK
\* 5XY0 6XKK 7XKK 8XY0..8XY7 8XYE 9XY0 ANNN BNNN CXKK DXYN EX9E EXA1 FX07
\* FX0A FX15 FX18 FX1E FX29 FX33 FX55 FX65.
DefinedEncoding(op) ==
    LET group == op \div 4096
    IN  \/ op \in {224, 238}
        \/ group \in {1, 2, 3, 4, 6, 7, 10, 11, 12, 13}
        \/ group \in {5, 9} /\ op % 16 = 0
        \/ group = 8 /\ op % 16 \in (0..7) \cup {14}
        \/ group = 14 /\ op % 256 \in {158, 161}
        \/ group = 15 /\ op % 256 \in {7, 10, 21, 24, 30, 41, 51, 85, 101}

\* C10: a fetched word that matches none of the defined encodings is a fatal
\* decode failure, and is not executed as some defined instruction: the run
\* has panicked, and the machine is as the iteration found it.
C10_UndefinedWordsFail ==
    (opcode # -1 /\ ~DefinedEncoding(opcode)) =>
        /\ panicked
        /\ Self = [prev.machine EXCEPT !.panicked = TRUE]

\* The last iteration fetched a word of the 0x0 group other than 00E0 and
\* 00EE.
ZeroGroupUndefined == opcode >= 0 /\ opcode < 4096 /\ opcode \notin {224, 238}

\* C11: every word in 0x0000..0x0FFF other than 00E0 and 00EE is a fatal
\* decode failure: the run has stopped, the word changed no register, memory
\* byte, stack entry, timer or framebuffer cell, and no iteration ever begins
\* on a machine that has stopped.
C11_ZeroGroupRejected ==
    /\ ZeroGroupUndefined =>
           /\ panicked
           /\ Self = [prev.machine EXCEPT !.panicked = TRUE]
    /\ cycles > 0 => ~prev.machine.panicked

\* 0NNN for an NNN well away from 0E0 has been fetched on a machine whose
\* timers were running and whose framebuffer held pixels.
C11_Witness ==
    /\ ZeroGroupUndefined
    /\ opcode = 4095
    /\ prev.machine.delay > 0
    /\ prev.machine.display # {}
    /\ panicked

\* memory is as before the last iteration everywhere but at the addresses in
\* written; an address that holds a non-zero byte neither before nor after
\* holds zero both times.
MemoryKeptOutside(written) ==
    \A a \in (DOMAIN memory \cup DOMAIN prev.machine.memory) \ written :
        Byte(memory, a) = Byte(prev.machine.memory, a)

\* C12: FX33 with i + 2 inside memory completes and leaves at memory[i],
\* memory[i + 1], memory[i + 2] the hundreds, tens and ones digits of Vx: three
\* decimal digits whose value is Vx. No other memory byte, no register and not
\* i change.
C12_BcdStore ==
    (opcode >= 0 /\ Decode(opcode) = "ld_b_vx"
        /\ prev.machine.i + 2 < MEMORY_SIZE) =>
        LET at == prev.machine.i
            hundreds == Byte(memory, at)
            tens == Byte(memory, at + 1)
            ones == Byte(memory, at + 2)
        IN  /\ ~panicked
            /\ {hundreds, tens, ones} \subseteq 0..9
            /\ 100 * hundreds + 10 * tens + ones = PrevV(X)
            /\ MemoryKeptOutside({at, at + 1, at + 2})
            /\ registers = prev.machine.registers
            /\ i = prev.machine.i

\* FX33 has turned 234 into 2, 3, 4 over bytes that held something else.
C12_Witness ==
    /\ Executed("ld_b_vx")
    /\ PrevV(X) = 234
    /\ << Byte(memory, i), Byte(memory, i + 1), Byte(memory, i + 2) >>
           = << 2, 3, 4 >>
    /\ Byte(prev.machine.memory, i) = 255
    /\ Byte(prev.machine.memory, i + 1) = 129

\* The last iteration ran to its end: its handler returned and the timer
\* update followed.
Completed == opcode >= 0 /\ ~panicked /\ ~waiting

\* The value a timer holds once the instruction of the last iteration has
\* executed: Vx when that instruction is the timer's load, the value before
\* the iteration otherwise.
AfterInstruction(load, before) ==
    IF Decode(opcode) = load THEN PrevV(X) ELSE before

\* C13: at the end of every iteration each timer is max(t - 1, 0) for its
\* value t after the instruction, so a value written by FX15 or FX18 is
\* already one lower, a timer never wraps to 255, a timer at 0 stays 0 until
\* its load writes it, and neither timer depends on the other.
C13_TimerDecrement ==
    /\ delay \in 0..255
    /\ sound \in 0..255
    /\ Completed =>
           LET t_delay == AfterInstruction("ld_dt_vx", prev.machine.delay)
               t_sound == AfterInstruction("ld_st_vx", prev.machine.sound)
           IN  /\ delay = IF t_delay > 0 THEN t_delay - 1 ELSE 0
               /\ sound = IF t_sound > 0 THEN t_sound - 1 ELSE 0
               /\ (prev.machine.delay = 0 /\ Decode(opcode) # "ld_dt_vx")
                      => delay = 0
               /\ (prev.machine.sound = 0 /\ Decode(opcode) # "ld_st_vx")
                      => sound = 0

\* FX15 has written 5 over a delay timer at 9 while the sound timer rested at
\* 0: the iteration ends with 4 and 0.
C13_Witness ==
    /\ Executed("ld_dt_vx")
    /\ PrevV(X) = 5
    /\ prev.machine.delay = 9
    /\ prev.machine.sound = 0
    /\ delay = 4
    /\ sound = 0

\* No key of the latch was pressed when the last iteration began.
NoKeyHeld == \A k \in 0..(NUM_KEYS - 1) : ~prev.machine.keyboard[k]

\* C14: FX0A that starts with no key pressed parks inside its handler: pc,
\* both timers, the registers, i, the stack, memory and the framebuffer are
\* what they were when it was fetched, and no iteration begins on a parked
\* machine, so no other instruction is fetched or executed.
C14_ParkedWaitFrozen ==
    /\ (opcode >= 0 /\ Decode(opcode) = "ld_vx_k" /\ NoKeyHeld) =>
           /\ waiting
           /\ Self = [prev.machine EXCEPT !.waiting = TRUE]
    /\ cycles > 0 => ~prev.machine.waiting

\* FX0A is parked with both timers still running.
C14_Witness ==
    /\ waiting
    /\ NoKeyHeld
    /\ delay = 9
    /\ sound = 1
    /\ prev.machine.delay = 9

\* C15: FX0A is the only instruction that parks the machine waiting for a
\* key, and an FX0A that has completed did so on a key that went from released
\* to pressed during the wait (a key held since before the fetch is no such
\* transition), with the index of that key in Vx.
C15_KeyWaitEdge ==
    /\ waiting => (opcode >= 0 /\ Decode(opcode) = "ld_vx_k")
    /\ Executed("ld_vx_k") =>
           \E k \in 0..(NUM_KEYS - 1) :
               /\ ~prev.machine.keyboard[k]
               /\ keyboard[k]
               /\ registers[X] = k

\* The instructions that assign pc a target: 1NNN, BNNN, 2NNN, 00EE.
Jumps == {"jp", "jp_v0", "call", "ret"}

\* The condition of the skip instruction executed by the last iteration held
\* on the machine it was fetched on.
SkipTaken ==
    CASE Decode(opcode) = "se" -> PrevV(X) = OpKK(opcode)
      [] Decode(opcode) = "sne" -> PrevV(X) # OpKK(opcode)
      [] Decode(opcode) = "se_vx_vy" -> PrevV(X) = PrevV(Y)
      [] Decode(opcode) = "sne_vx_vy" -> PrevV(X) # PrevV(Y)
      [] Decode(opcode) = "skp" -> prev.machine.keyboard[PrevV(X)]
      [] Decode(opcode) = "sknp" -> ~prev.machine.keyboard[PrevV(X)]
      [] OTHER -> FALSE

\* C16: an iteration that ran to its end on an instruction other than a jump,
\* a call or a return leaves pc at its fetch value plus 2, plus 4 when the
\* instruction is a skip whose condition held; and two consecutive iterations
\* fetch from the same address only when the first of them is a jump, call or
\* return.
C16_PcAdvance ==
    /\ (Completed /\ Decode(opcode) \notin Jumps) =>
           pc = prev.machine.pc + (IF SkipTaken THEN 4 ELSE 2)
    /\ (cycles >= 2 /\ opcode >= 0 /\ prev.machine.pc = prev2.machine.pc) =>
           Decode(prev.opcode) \in Jumps

\* C17: from the empty stack, each of the first 16 of a run of 2NNN calls with
\* no return between them succeeds, the stack pointer indexes inside the
\* 16-entry stack, and the return addresses stored so far lie in as many
\* distinct slots as calls were made.
C17_SixteenNestedCalls ==
    (opcode >= 0 /\ Decode(opcode) = "call" /\ cycles <= STACK_SIZE
        /\ Len(prev.calls) = cycles - 1) =>
        /\ ~panicked
        /\ sp < STACK_SIZE
        /\ Cardinality({k \in 0..(STACK_SIZE - 1) : stack[k] # 0}) = cycles

\* The last iteration fetched the instruction of handler h with
\* i + X inside memory.
RangeInside(h) ==
    /\ opcode >= 0
    /\ Decode(opcode) = h
    /\ prev.machine.i + X < MEMORY_SIZE

\* The iteration before the last ran FX55 to its end, and the last one
\* fetched FX65 with the same X on the same i.
DumpThenLoad ==
    /\ cycles >= 2
    /\ prev.opcode >= 0
    /\ Decode(prev.opcode) = "ld_i_vx"
    /\ opcode >= 0
    /\ Decode(opcode) = "ld_vx_i"
    /\ OpX(prev.opcode) = X
    /\ prev2.machine.i = prev.machine.i
    /\ ~panicked

\* C18: FX55 with i + X inside memory writes V0..VX to memory[i..i + X] and
\* changes no other memory byte, no register and not i; FX65 with i + X inside
\* memory sets V0..VX to memory[i..i + X] and changes no other register, no
\* memory byte and not i; and FX55 followed by FX65 with the same i and X
\* leaves all 16 registers and i as they were before the FX55.
C18_DumpLoadRoundTrip ==
    /\ RangeInside("ld_i_vx") =>
           /\ ~panicked
           /\ \A k \in 0..X : Byte(memory, prev.machine.i + k) = PrevV(k)
           /\ MemoryKeptOutside({prev.machine.i + k : k \in 0..X})
           /\ registers = prev.machine.registers
           /\ i = prev.machine.i
    /\ RangeInside("ld_vx_i") =>
           /\ ~panicked
           /\ \A k \in 0..X :
                  registers[k] = Byte(prev.machine.memory, prev.machine.i + k)
           /\ \A k \in (X + 1)..(NUM_REGISTERS - 1) : registers[k] = PrevV(k)
           /\ memory = prev.machine.memory
           /\ i = prev.machine.i
    /\ DumpThenLoad =>
           /\ registers = prev2.machine.registers
           /\ i = prev2.machine.i

\* FF55 has dumped all 16 registers over memory that held other bytes, and the
\* FF65 that followed it has loaded them back.
C18_Witness ==
    /\ DumpThenLoad
    /\ X = 15
    /\ prev.machine.memory # prev2.machine.memory
    /\ \A k \in 0..X : Byte(memory, i + k) = registers[k]
    /\ registers[15] # 0

\* C19: DXYN never indexes the framebuffer out of range: for the coordinates
\* it was fetched with, every row (Vy + r) mod SCREEN_HEIGHT is below the
\* array's first dimension and every column (Vx + j) mod SCREEN_WIDTH below
\* its second, a draw whose sprite rows lie inside memory does not fault, and
\* every lit cell is a cell of the array.
C19_DrawInRange ==
    /\ \A cell \in display : cell[1] < SCREEN_WIDTH /\ cell[2] < SCREEN_HEIGHT
    /\ (opcode >= 0 /\ Decode(opcode) = "drw") =>
           /\ \A r \in 0..(OpN(opcode) - 1), j \in 0..7 :
                  /\ (PrevV(Y) + r) % SCREEN_HEIGHT < SCREEN_WIDTH
                  /\ (PrevV(X) + j) % SCREEN_WIDTH < SCREEN_HEIGHT
           /\ prev.machine.i + OpN(opcode) <= MEMORY_SIZE => ~panicked

\* A 15-row sprite has been drawn from the coordinates (255, 255) onto an
\* empty framebuffer, lighting a cell of row 269.
C19_Witness ==
    /\ Executed("drw")
    /\ OpN(opcode) = 15
    /\ PrevV(X) = 255
    /\ PrevV(Y) = 255
    /\ prev.machine.display = {}
    /\ \E cell \in display : cell[1] = 269 /\ cell[2] >= 255

\* C20: for every value of Vx, EX9E and EXA1 read the key latch at an index
\* in 0..15 and complete without fault, changing nothing except possibly pc
\* (the timers tick at the end of the iteration as after any instruction).
C20_KeySkipInRange ==
    (opcode >= 0 /\ Decode(opcode) \in {"skp", "sknp"}) =>
        /\ PrevV(X) < NUM_KEYS
        /\ ~panicked
        /\ Self = [prev.machine EXCEPT !.pc = pc, !.delay = delay,
                                       !.sound = sound]

====
